---------------------------- MODULE Spec2Model ----------------------------
(***************************************************************************)
(* A model of src/app.py, the DataDriven Bookkeeping demo dashboard.       *)
(*                                                                         *)
(* The script is re-run from top to bottom on every widget interaction.    *)
(* Four specifications share the variables below:                          *)
(*   SpecPL      the shared pre-calcs and the P&L / Insights pages         *)
(*   SpecSpatial generate_spatial_commentary on a spatial table            *)
(*   SpecTrend   the Trends page's Month ordering                          *)
(*   SpecApp     sessions, the st.cache_data loaders and the six views     *)
(*                                                                         *)
(* Text cells are sequences of one-character strings so that parsing and   *)
(* substring matching are computed rather than assumed.  Numbers are       *)
(* integers; a numeric cell is [ok |-> TRUE, v |-> n] and pandas' NaN is   *)
(* [ok |-> FALSE, v |-> 0].  A quotient is an exact fraction in lowest     *)
(* terms.                                                                  *)
(***************************************************************************)
EXTENDS Integers, Sequences, FiniteSets, TLC

VARIABLES
    \* ---- shared pre-calcs, P&L page, Insights page
    plfile,            \* rows of the P&L csv on disk (text cells)
    page,              \* the view selected by st.radio
    pc,                \* "start" | "done" | "error" (uncaught exception)
    df,                \* load_pl_data(filename)
    revenues, cogs, opex, summary,
    total_rev_cur, total_rev_prev,
    gross_profit, operating_profit, net_income,
    gross_margin, oper_margin, net_margin,
    kpi_delta,         \* kpis_pl[0] delta, before formatting
    insight,           \* which st.success / st.warning / st.info was shown
    \* ---- generate_spatial_commentary
    sdf,               \* the spatial table passed in: [cols, rows]
    spc,               \* "start" | "done"
    value_col,         \* the ranking column chosen
    q20, q80,          \* five times the 20th / 80th percentile
    hot, cold,         \* the hot and cold frames (rows of sdf)
    narrative,         \* the returned text: [kind, hot_txt, cold_txt]
    \* ---- Trends page
    tfile,             \* the trend csv on disk: [hasMonth, rows]
    tpc,               \* "start" | "done"
    tdf,               \* the frame handed to the charts
    \* ---- the running app
    disk,              \* DATA_DIR: file name -> [exists, cols, rows]
    cache,             \* st.cache_data: file name -> [cached, tbl]
    open,              \* the browser sessions connected to the server
    sess,              \* per session: widgets, position in the script, frame, output
    firstLoad          \* history: what the first load of each file returned

plVars == <<plfile, page, pc, df, revenues, cogs, opex, summary,
            total_rev_cur, total_rev_prev,
            gross_profit, operating_profit, net_income,
            gross_margin, oper_margin, net_margin, kpi_delta, insight>>

spVars == <<sdf, spc, value_col, q20, q80, hot, cold, narrative>>

trVars == <<tfile, tpc, tdf>>

appVars == <<disk, cache, open, sess, firstLoad>>

vars == <<plVars, spVars, trVars, appVars>>

-----------------------------------------------------------------------------
(* Bounds of the model *)

\* longest P&L table drawn in Init
MaxPLRows == 3
\* longest spatial table drawn in Init
MaxSpatialRows == 5
\* longest trend table drawn in Init
MaxTrendRows == 4
\* longest spatial table drawn from two metric values only (many ties)
MaxTieRows == 6
\* longest spatial table drawn with another choice of metric columns
MaxFallbackRows == 3

-----------------------------------------------------------------------------
(* Numbers, NaN and exact quotients *)

Num(n) == [ok |-> TRUE, v |-> n]
NaN == [ok |-> FALSE, v |-> 0]

Abs(n) == IF n < 0 THEN -n ELSE n

RECURSIVE GCD(_, _)
GCD(a, b) == IF b = 0 THEN a ELSE GCD(b, a % b)

\* a quotient n/d, d # 0, in lowest terms with a positive denominator
Frac(n, d) ==
    LET g == GCD(Abs(n), Abs(d))
        s == IF d < 0 THEN -1 ELSE 1
    IN  [nan |-> FALSE, n |-> s * (n \div g), d |-> Abs(d) \div g]
FracNaN == [nan |-> TRUE, n |-> 0, d |-> 1]
FracZero == [nan |-> FALSE, n |-> 0, d |-> 1]
FracUnset == [nan |-> TRUE, n |-> 0, d |-> 0]
NumUnset == [ok |-> FALSE, v |-> -1]

-----------------------------------------------------------------------------
(* The variables of a part of the script that a specification does not run *)

NoNarrative == [kind |-> "none", hot_txt |-> <<>>, cold_txt |-> <<>>]

PLIdle ==
    /\ plfile = <<>> /\ page = "none" /\ pc = "idle" /\ df = <<>>
    /\ revenues = <<>> /\ cogs = <<>> /\ opex = <<>> /\ summary = <<>>
    /\ total_rev_cur = 0 /\ total_rev_prev = 0
    /\ gross_profit = NumUnset /\ operating_profit = NumUnset /\ net_income = NumUnset
    /\ gross_margin = FracUnset /\ oper_margin = FracUnset /\ net_margin = FracUnset
    /\ kpi_delta = NumUnset /\ insight = "none"

SpatialIdle ==
    /\ sdf = [cols |-> {}, rows |-> <<>>] /\ spc = "idle" /\ value_col = "none"
    /\ q20 = 0 /\ q80 = 0 /\ hot = <<>> /\ cold = <<>>
    /\ narrative = NoNarrative

TrendIdle ==
    /\ tfile = [hasMonth |-> FALSE, rows |-> <<>>] /\ tpc = "idle" /\ tdf = <<>>

AppIdle ==
    /\ disk = <<>> /\ cache = <<>> /\ open = {} /\ sess = <<>> /\ firstLoad = <<>>

-----------------------------------------------------------------------------
(* Text *)

DigitChars == <<"0", "1", "2", "3", "4", "5", "6", "7", "8", "9">>
LowerChars == <<"a", "b", "c", "d", "e", "f", "g", "h", "i", "j", "k", "l", "m",
                "n", "o", "p", "q", "r", "s", "t", "u", "v", "w", "x", "y", "z">>
UpperChars == <<"A", "B", "C", "D", "E", "F", "G", "H", "I", "J", "K", "L", "M",
                "N", "O", "P", "Q", "R", "S", "T", "U", "V", "W", "X", "Y", "Z">>

DigitMap == [c \in { DigitChars[i] : i \in 1..10 } |->
                (CHOOSE i \in 1..10 : DigitChars[i] = c) - 1]
IsDigit(c) == c \in DOMAIN DigitMap
DigitVal(c) == DigitMap[c]

\* case folding as re.IGNORECASE does for ASCII letters
FoldMap == [c \in { LowerChars[i] : i \in 1..26 } |->
               UpperChars[CHOOSE i \in 1..26 : LowerChars[i] = c]]
Fold(c) == IF c \in DOMAIN FoldMap THEN FoldMap[c] ELSE c

RECURSIVE ParseNat(_)
ParseNat(s) ==
    IF s = <<>> THEN 0
    ELSE 10 * ParseNat(SubSeq(s, 1, Len(s) - 1)) + DigitVal(s[Len(s)])

AllDigits(s) == Len(s) > 0 /\ \A i \in 1..Len(s) : IsDigit(s[i])

\* pd.to_numeric(errors="coerce") on one text cell: an optionally signed
\* decimal integer parses, anything else (empty cell included) becomes NaN
ToNumeric(s) ==
    IF AllDigits(s) THEN Num(ParseNat(s))
    ELSE IF Len(s) > 1 /\ s[1] = "-" /\ AllDigits(Tail(s))
         THEN Num(0 - ParseNat(Tail(s)))
         ELSE NaN

\* Series.str.contains(pat, case=...) with a pattern of plain letters
StrContains(s, pat, case) ==
    \E i \in 1..(Len(s) - Len(pat) + 1) :
        \A j \in 1..Len(pat) :
            IF case THEN s[i + j - 1] = pat[j]
            ELSE Fold(s[i + j - 1]) = Fold(pat[j])

-----------------------------------------------------------------------------
(* The P&L statement: loader, section splitter, summary lookup *)

TOTAL == <<"T", "O", "T", "A", "L">>
GROSS_PROFIT == <<"G", "R", "O", "S", "S", " ", "P", "R", "O", "F", "I", "T", " ", "(", "L", "O", "S", "S", ")">>
OPERATING_PROFIT == <<"O", "P", "E", "R", "A", "T", "I", "N", "G", " ", "P", "R", "O", "F", "I", "T", " ", "(", "L", "O", "S", "S", ")">>
NET_INCOME == <<"N", "E", "T", " ", "I", "N", "C", "O", "M", "E", " ", "(", "L", "O", "S", "S", ")">>

FileRow(sec, item, cur, prior) ==
    [Section |-> sec, LineItem |-> item, Cur |-> cur, Prior |-> prior]

\* the rows a P&L csv is drawn from: matching and non-matching revenue lines in
\* several letter cases, unparseable amounts, the three summary keys (one of
\* them twice), and section labels the splitter does not know
PLRowPool ==
    { FileRow("REVENUES", <<"T", "O", "T", "A", "L", " ", "R", "E", "V", "E", "N", "U", "E">>, <<"1", "0", "0">>, <<"9", "0">>),
      FileRow("REVENUES", <<"T", "o", "t", "a", "l", " ", "O", "t", "h", "e", "r", " ", "I", "n", "c", "o", "m", "e">>, <<"2", "0">>, <<"3", "0">>),
      FileRow("REVENUES", <<"S", "e", "r", "v", "i", "c", "e", " ", "R", "e", "v", "e", "n", "u", "e">>, <<"7", "0">>, <<"6", "0">>),
      FileRow("REVENUES", <<"R", "E", "F", "U", "N", "D", "S", " ", "T", "O", "T", "A", "L">>, <<"-", "1", "0", "0">>, <<"0">>),
      FileRow("REVENUES", <<"S", "u", "b", "t", "o", "t", "a", "l">>, <<"a", "b", "c">>, <<"5">>),
      FileRow("COST OF GOODS SOLD", <<"M", "a", "t", "e", "r", "i", "a", "l", "s">>, <<"4", "0">>, <<"3", "0">>),
      FileRow("OPERATING EXPENSES", <<"R", "e", "n", "t">>, <<"2", "0">>, <<"2", "0">>),
      FileRow("SUMMARY", GROSS_PROFIT, <<"6", "0">>, <<"6", "0">>),
      FileRow("SUMMARY", OPERATING_PROFIT, <<"2", "0">>, <<"a", "b", "c">>),
      FileRow("SUMMARY", NET_INCOME, <<"-", "1", "5">>, <<"-", "2", "0">>),
      FileRow("SUMMARY", NET_INCOME, <<"7">>, <<"0">>),
      FileRow("ASSETS", <<"T", "O", "T", "A", "L", " ", "A", "S", "S", "E", "T", "S">>, <<"9", "0">>, <<"7", "0">>),
      FileRow("Revenues", <<"T", "O", "T", "A", "L", " ", "R", "E", "V", "E", "N", "U", "E">>, <<"5">>, <<"5">>) }

PLFiles == UNION { [1..n -> PLRowPool] : n \in 0..MaxPLRows }

\* load_pl_data: read_csv gives a RangeIndex; Current Period and Prior Period
\* are coerced cell by cell (the optional Change column is read by no view)
load_pl_data(file) ==
    [i \in 1..Len(file) |->
        [idx |-> i - 1,
         Section |-> file[i].Section,
         LineItem |-> file[i].LineItem,
         Cur |-> ToNumeric(file[i].Cur),
         Prior |-> ToNumeric(file[i].Prior)]]

\* df[df["Section"] == name]: a boolean mask keeps the rows in source order
BySection(d, name) == SelectSeq(d, LAMBDA r : r.Section = name)

\* the same splitter with the filter of one frame pasted into the next
split_sections_pasted(d) ==
    [revenues |-> BySection(d, "REVENUES"),
     cogs |-> BySection(d, "REVENUES"),
     opex |-> BySection(d, "OPERATING EXPENSES"),
     summary |-> BySection(d, "SUMMARY")]

\* split_sections: summary is the SUMMARY rows keyed by Line Item (set_index
\* keeps every row, duplicates of a key included; idx is kept here as the
\* row's position in the source so that rows can be told apart)
split_sections(d) ==
    [revenues |-> BySection(d, "REVENUES"),
     cogs |-> BySection(d, "COST OF GOODS SOLD"),
     opex |-> BySection(d, "OPERATING EXPENSES"),
     summary |-> BySection(d, "SUMMARY")]

\* get_summary_value: `name in summary.index`, then summary.loc[name, col] is a
\* scalar for a unique key and a Series for a repeated one, and float() of a
\* Series of several values raises TypeError
get_summary_value(s, name) ==
    LET hits == SelectSeq(s, LAMBDA r : r.LineItem = name)
    IN  IF Len(hits) = 0 THEN [raised |-> FALSE, val |-> Num(0)]
        ELSE IF Len(hits) = 1 THEN [raised |-> FALSE, val |-> hits[1].Cur]
        ELSE [raised |-> TRUE, val |-> NumUnset]

\* Series.sum(): NaN is skipped, the empty sum is 0
RECURSIVE SumCur(_)
SumCur(rows) ==
    IF rows = <<>> THEN 0
    ELSE (IF rows[1].Cur.ok THEN rows[1].Cur.v ELSE 0) + SumCur(Tail(rows))

RECURSIVE SumPrior(_)
SumPrior(rows) ==
    IF rows = <<>> THEN 0
    ELSE (IF rows[1].Prior.ok THEN rows[1].Prior.v ELSE 0) + SumPrior(Tail(rows))

\* the mask with case=True instead of case=False
TotalMaskCased(r) == StrContains(r.LineItem, TOTAL, TRUE)

\* revenues["Line Item"].str.contains("TOTAL", case=False)
TotalMask(r) == StrContains(r.LineItem, TOTAL, FALSE)

TotalRows(rev) == SelectSeq(rev, TotalMask)

\* the guard written as `total > 0`
MarginPositiveOnly(profit, total) ==
    IF total > 0
    THEN (IF profit.ok THEN Frac(profit.v, total) ELSE FracNaN)
    ELSE FracZero

\* profit / total_rev_cur if total_rev_cur else 0
Margin(profit, total) ==
    IF total # 0
    THEN (IF profit.ok THEN Frac(profit.v, total) ELSE FracNaN)
    ELSE FracZero

-----------------------------------------------------------------------------
(* One run of the script on a P&L file: lines 317-334, then the page *)

PLPages == {"Profit & Loss", "Insights"}

\* the Insights page's verdict.  pct = delta / prev * 100 if prev else None;
\* NaN is truthy and compares False both ways
InsightMessage(cur, prev) ==
    IF ~prev.ok \/ ~cur.ok THEN "flat"
    ELSE IF prev.v = 0 THEN "flat"
    ELSE LET delta == cur.v - prev.v
         IN  IF (delta > 0 /\ prev.v > 0) \/ (delta < 0 /\ prev.v < 0) THEN "improved"
             ELSE IF delta = 0 THEN "flat"
             ELSE "declined"

\* summary.loc["NET INCOME (LOSS)", "Prior Period"] if the key is present else 0
NetIncomePrev(s) ==
    LET hits == SelectSeq(s, LAMBDA r : r.LineItem = NET_INCOME)
    IN  IF Len(hits) = 0 THEN Num(0) ELSE hits[1].Prior

InitPL ==
    /\ plfile \in PLFiles
    /\ page = "none"
    /\ pc = "start"
    /\ df = <<>>
    /\ revenues = <<>> /\ cogs = <<>> /\ opex = <<>> /\ summary = <<>>
    /\ total_rev_cur = 0 /\ total_rev_prev = 0
    /\ gross_profit = NumUnset /\ operating_profit = NumUnset /\ net_income = NumUnset
    /\ gross_margin = FracUnset /\ oper_margin = FracUnset /\ net_margin = FracUnset
    /\ kpi_delta = NumUnset
    /\ insight = "none"
    /\ SpatialIdle
    /\ TrendIdle
    /\ AppIdle

\* lines 319-334 on the loaded frame d; a raise in get_summary_value ends the
\* run before any margin is assigned
PreCalcs(d) ==
    LET sp == split_sections(d)
        cur == SumCur(TotalRows(sp.revenues))
        prev == SumPrior(TotalRows(sp.revenues))
        gp == get_summary_value(sp.summary, GROSS_PROFIT)
        op == get_summary_value(sp.summary, OPERATING_PROFIT)
        ni == get_summary_value(sp.summary, NET_INCOME)
    IN  [revenues |-> sp.revenues, cogs |-> sp.cogs, opex |-> sp.opex,
         summary |-> sp.summary,
         total_rev_cur |-> cur, total_rev_prev |-> prev,
         raised |-> gp.raised \/ op.raised \/ ni.raised,
         gross_profit |-> gp.val, operating_profit |-> op.val, net_income |-> ni.val,
         gross_margin |-> Margin(gp.val, cur),
         oper_margin |-> Margin(op.val, cur),
         net_margin |-> Margin(ni.val, cur)]

\* the script from `filename = INDUSTRY_FILES[industry]` to the end of the
\* selected page p, on a P&L file that has its four columns
RunPL ==
    /\ pc = "start"
    /\ \E p \in PLPages, d \in { load_pl_data(plfile) } :
       \E pre \in { PreCalcs(d) } :
           /\ page' = p
           /\ df' = d
           /\ revenues' = pre.revenues
           /\ cogs' = pre.cogs
           /\ opex' = pre.opex
           /\ summary' = pre.summary
           /\ total_rev_cur' = pre.total_rev_cur
           /\ total_rev_prev' = pre.total_rev_prev
           /\ IF pre.raised
              THEN /\ pc' = "error"
                   /\ UNCHANGED <<gross_profit, operating_profit, net_income,
                                  gross_margin, oper_margin, net_margin,
                                  kpi_delta, insight>>
              ELSE /\ pc' = "done"
                   /\ gross_profit' = pre.gross_profit
                   /\ operating_profit' = pre.operating_profit
                   /\ net_income' = pre.net_income
                   /\ gross_margin' = pre.gross_margin
                   /\ oper_margin' = pre.oper_margin
                   /\ net_margin' = pre.net_margin
                   /\ kpi_delta' = IF p = "Profit & Loss"
                                   THEN Num(pre.total_rev_cur - pre.total_rev_prev)
                                   ELSE NumUnset
                   /\ insight' = IF p = "Insights"
                                 THEN InsightMessage(pre.net_income, NetIncomePrev(pre.summary))
                                 ELSE "none"
    /\ UNCHANGED plfile
    /\ UNCHANGED <<spVars, trVars, appVars>>

NextPL == RunPL

SpecPL == InitPL /\ [][NextPL]_vars

-----------------------------------------------------------------------------
(* Claims about the P&L pre-calcs, checked under SpecPL *)

Range(f) == { f[i] : i \in DOMAIN f }
IdxOf(rows) == { rows[i].idx : i \in DOMAIN rows }
KnownSections == {"REVENUES", "COST OF GOODS SOLD", "OPERATING EXPENSES", "SUMMARY"}

\* m is the quotient p / t (t # 0): cross-multiplied, NaN in gives NaN out
IsQuotient(m, p, t) ==
    IF p.ok THEN ~m.nan /\ m.d > 0 /\ m.n * t = p.v * m.d ELSE m.nan

\* C1: with the pre-calcs done, the three margins are exactly 0 when
\* total_rev_cur is 0, whatever the profit figures are, and otherwise each is
\* its profit figure divided by total_rev_cur.
C1_Margins ==
    pc = "done" =>
        /\ total_rev_cur = 0 =>
              /\ gross_margin = FracZero
              /\ oper_margin = FracZero
              /\ net_margin = FracZero
        /\ total_rev_cur # 0 =>
              /\ IsQuotient(gross_margin, gross_profit, total_rev_cur)
              /\ IsQuotient(oper_margin, operating_profit, total_rev_cur)
              /\ IsQuotient(net_margin, net_income, total_rev_cur)

\* a run with no revenue total, a positive gross profit and a negative net income
C1_Witness ==
    /\ pc = "done"
    /\ total_rev_cur = 0
    /\ gross_profit.ok /\ gross_profit.v > 0
    /\ net_income.ok /\ net_income.v < 0
    /\ gross_margin = FracZero /\ net_margin = FracZero

\* each output holds rows of df, each once, in increasing source position
SliceOf(rows, sec) ==
    /\ \A i \in DOMAIN rows :
          /\ rows[i].idx + 1 \in DOMAIN df
          /\ rows[i] = df[rows[i].idx + 1]
          /\ rows[i].Section = sec
    /\ \A i, j \in DOMAIN rows : i < j => rows[i].idx < rows[j].idx

\* C2: after split_sections the four outputs are pairwise disjoint, together
\* they are exactly the rows of df whose Section is one of the four labels,
\* each output holds the rows of its own label in source order, and a label
\* with no rows gives an empty output (the split itself never raises).
C2_Partition ==
    pc # "start" =>
        /\ SliceOf(revenues, "REVENUES")
        /\ SliceOf(cogs, "COST OF GOODS SOLD")
        /\ SliceOf(opex, "OPERATING EXPENSES")
        /\ SliceOf(summary, "SUMMARY")
        /\ IdxOf(revenues) \cap IdxOf(cogs) = {}
        /\ IdxOf(revenues) \cap IdxOf(opex) = {}
        /\ IdxOf(revenues) \cap IdxOf(summary) = {}
        /\ IdxOf(cogs) \cap IdxOf(opex) = {}
        /\ IdxOf(cogs) \cap IdxOf(summary) = {}
        /\ IdxOf(opex) \cap IdxOf(summary) = {}
        /\ IdxOf(revenues) \cup IdxOf(cogs) \cup IdxOf(opex) \cup IdxOf(summary)
              = { r.idx : r \in { x \in Range(df) : x.Section \in KnownSections } }
        /\ Len(df) = Len(plfile)

\* two revenue rows around a row of an unknown section, one summary row after
\* them, no cost-of-goods and no operating-expense row at all
C2_Witness ==
    /\ pc # "start"
    /\ Len(df) = 3
    /\ IdxOf(revenues) = {0, 2}
    /\ df[2].Section \notin KnownSections
    /\ cogs = <<>> /\ opex = <<>>
    /\ revenues[1].LineItem # revenues[2].LineItem

RECURSIVE SetSum(_, _)
SetSum(S, f) ==
    IF S = {} THEN 0
    ELSE LET x == CHOOSE y \in S : TRUE IN f[x] + SetSum(S \ {x}, f)

\* the source positions of the REVENUES rows whose Line Item holds "TOTAL" in
\* any letter case
TotalPositions ==
    { i \in DOMAIN df :
        /\ df[i].Section = "REVENUES"
        /\ StrContains(df[i].LineItem, TOTAL, FALSE) }

\* C3: total_rev_cur and total_rev_prev are the sums of Current Period and
\* Prior Period over every REVENUES row whose Line Item contains "TOTAL" in
\* any letter case (a null amount adds nothing), and the delta of the revenue
\* KPI is total_rev_cur - total_rev_prev.
C3_TotalRevenue ==
    pc # "start" =>
        /\ total_rev_cur =
              SetSum(TotalPositions,
                     [i \in DOMAIN df |-> IF df[i].Cur.ok THEN df[i].Cur.v ELSE 0])
        /\ total_rev_prev =
              SetSum(TotalPositions,
                     [i \in DOMAIN df |-> IF df[i].Prior.ok THEN df[i].Prior.v ELSE 0])
        /\ (pc = "done" /\ page = "Profit & Loss") =>
              kpi_delta = Num(total_rev_cur - total_rev_prev)

\* "TOTAL REVENUE" and "Total Other Income" both counted, "Service Revenue" not
C3_Witness ==
    /\ pc = "done"
    /\ page = "Profit & Loss"
    /\ Len(revenues) = 3
    /\ Cardinality(TotalPositions) = 2
    /\ \E i \in TotalPositions : ~StrContains(df[i].LineItem, TOTAL, TRUE)
    /\ total_rev_cur = 120
    /\ kpi_delta = Num(0)

\* what the lookup of `name` has to give: the Current Period of the SUMMARY
\* row with that Line Item, 0 when there is none
LookupIs(val, name) ==
    LET rows == { r \in Range(df) : r.Section = "SUMMARY" /\ r.LineItem = name }
    IN  IF rows = {} THEN val = Num(0) ELSE \A r \in rows : val = r.Cur

NetIncomeLines ==
    { r \in Range(df) : r.Section = "SUMMARY" /\ r.LineItem = NET_INCOME }

\* C12: on the Insights view "improved" is shown only when current net income
\* is greater than prior net income and "declined" only when it is less, for
\* every pair of values, negative prior values included; with a prior net
\* income of 0 or without a NET INCOME (LOSS) line the "roughly flat" message
\* is shown.
C12_InsightDirection ==
    (pc = "done" /\ page = "Insights") =>
        /\ NetIncomeLines = {} => insight = "flat"
        /\ \A r \in NetIncomeLines :
              /\ r.Prior = Num(0) => insight = "flat"
              /\ insight = "improved" => (r.Cur.ok /\ r.Prior.ok /\ r.Cur.v > r.Prior.v)
              /\ insight = "declined" => (r.Cur.ok /\ r.Prior.ok /\ r.Cur.v < r.Prior.v)

-----------------------------------------------------------------------------
(* The spatial table and generate_spatial_commentary *)

\* fmt_zip_block shows at most this many rows: df_slice.head(4)
HeadRows == 4

\* the text cells a metric column is drawn from
MetricCells == { <<"-", "5">>, <<"2", "0">>, <<"4", "0">>, <<"a", "b", "c">> }

TieCells == { <<"-", "5">>, <<"2", "0">> }

\* the metric columns a spatial csv may carry
SpatialColumnSets ==
    { {}, {"Profit_Current"}, {"Revenue_Current"}, {"Profit_Current", "Revenue_Current"} }

ZipCell(i) == <<"3", "0", "3", "0", DigitChars[i + 1]>>
CityCell(i) == <<"C", "i", "t", "y", DigitChars[i + 1]>>

\* a spatial table whose metric cells are `cells`: the ranking column carries
\* them; with both columns present Revenue_Current is all numbers, so that a
\* Profit_Current without a single number is still told apart from it
SpatialTable(cols, cells) ==
    [cols |-> cols,
     rows |-> [i \in 1..Len(cells) |->
                 [idx |-> i - 1,
                  Zip |-> ZipCell(i),
                  City |-> CityCell(i),
                  Profit_Current |->
                      IF "Profit_Current" \in cols THEN cells[i] ELSE <<>>,
                  Revenue_Current |->
                      IF cols = {"Revenue_Current"} THEN cells[i]
                      ELSE IF "Revenue_Current" \in cols THEN <<"7">> ELSE <<>>]]]

\* every choice of columns on short tables, longer tables ranked by
\* Profit_Current alone, and the longest ones with two values, where a set can
\* hold more than four rows of different values
SpatialTables ==
    { SpatialTable(c, cells) :
        c \in SpatialColumnSets,
        cells \in UNION { [1..n -> MetricCells] : n \in 0..MaxFallbackRows } }
    \cup
    { SpatialTable({"Profit_Current"}, cells) :
        cells \in UNION { [1..n -> MetricCells] : n \in 0..MaxSpatialRows } }
    \cup
    { SpatialTable({"Profit_Current"}, cells) :
        cells \in UNION { [1..n -> TieCells] : n \in 0..MaxTieRows } }

\* the choice with the fallback taken when Profit_Current holds no number
ChooseValueColByData(t) ==
    IF /\ "Profit_Current" \in t.cols
       /\ \E i \in DOMAIN t.rows : ToNumeric(t.rows[i].Profit_Current).ok
    THEN "Profit_Current" ELSE "Revenue_Current"

\* "Profit_Current" if "Profit_Current" in sdf.columns else "Revenue_Current"
ChooseValueCol(t) ==
    IF "Profit_Current" \in t.cols THEN "Profit_Current" ELSE "Revenue_Current"

\* pd.to_numeric(sdf[value_col], errors="coerce") for one row
Metric(r, col) ==
    IF col = "Profit_Current" THEN ToNumeric(r.Profit_Current)
    ELSE ToNumeric(r.Revenue_Current)

\* the percentile taken at the lower order statistic, without interpolating
Quantile5Lower(sorted, p5) ==
    5 * sorted[((p5 * (Len(sorted) - 1)) \div 5) + 1]

\* the percentile interpolated from the upper order statistic onward, past the
\* two values around the position
Quantile5Overshoot(sorted, p5) ==
    LET h == p5 * (Len(sorted) - 1)
        j == h \div 5
        r == h % 5
    IN  IF r = 0 THEN 5 * sorted[j + 1]
        ELSE 5 * sorted[j + 2] + r * (sorted[j + 2] - sorted[j + 1])

\* Series.quantile(p5 / 5), times five: position p * (n - 1) in the sorted
\* values, linear interpolation between the two order statistics around it
Quantile5(sorted, p5) ==
    LET h == p5 * (Len(sorted) - 1)
        j == h \div 5
        r == h % 5
    IN  IF r = 0 THEN 5 * sorted[j + 1]
        ELSE 5 * sorted[j + 1] + r * (sorted[j + 2] - sorted[j + 1])

\* int(row["Zip"]) of a text cell: the digits' value, or the cell itself when
\* int() raises
ZipText(cell) ==
    IF ToNumeric(cell).ok THEN [int |-> TRUE, n |-> ToNumeric(cell).v, raw |-> <<>>]
    ELSE [int |-> FALSE, n |-> 0, raw |-> cell]

\* f"{z} ({row['City']})"
FmtEntry(r) == [zip |-> ZipText(r.Zip), city |-> r.City]

DfHead(rows, n) == SubSeq(rows, 1, IF Len(rows) < n THEN Len(rows) ELSE n)

\* the block built from one row more than HeadRows
fmt_zip_block_five(rows) ==
    [i \in 1..Len(DfHead(rows, HeadRows + 1)) |-> FmtEntry(rows[i])]

\* fmt_zip_block: the first four rows of the slice, in the slice's order
fmt_zip_block(rows) ==
    [i \in 1..Len(DfHead(rows, HeadRows)) |-> FmtEntry(rows[i])]

Message(kind) == [kind |-> kind, hot_txt |-> <<>>, cold_txt |-> <<>>]

\* generate_spatial_commentary(industry, sdf); the industry only fills in the
\* wording of the hot-spots line
generate_spatial_commentary(t) ==
    LET col == ChooseValueCol(t)
        early(kind, c) ==
            [value_col |-> c, q20 |-> 0, q80 |-> 0,
             hot |-> <<>>, cold |-> <<>>, narrative |-> Message(kind)]
    IN  IF Len(t.rows) = 0 THEN early("no_data", "none")
        ELSE IF col \notin t.cols THEN early("no_metric", col)
        ELSE
        LET sdf_valid == SelectSeq(t.rows, LAMBDA r : Metric(r, col).ok)
        IN  IF Len(sdf_valid) = 0 THEN early("no_valid", col)
            ELSE
            LET metric_series == [i \in 1..Len(sdf_valid) |-> Metric(sdf_valid[i], col).v]
                sorted == SortSeq(metric_series, LAMBDA a, b : a < b)
                lo == Quantile5(sorted, 1)
                hi == Quantile5(sorted, 4)
                h == SelectSeq(sdf_valid, LAMBDA r : 5 * Metric(r, col).v >= hi)
                c == SelectSeq(sdf_valid, LAMBDA r : 5 * Metric(r, col).v <= lo)
                hot_txt == fmt_zip_block(h)
                cold_txt == fmt_zip_block(c)
            IN  [value_col |-> col, q20 |-> lo, q80 |-> hi, hot |-> h, cold |-> c,
                 narrative |->
                    [kind |-> IF hot_txt = <<>> /\ cold_txt = <<>> THEN "even" ELSE "lines",
                     hot_txt |-> hot_txt, cold_txt |-> cold_txt]]

InitSpatial ==
    /\ sdf \in SpatialTables
    /\ spc = "start"
    /\ value_col = "none"
    /\ q20 = 0 /\ q80 = 0
    /\ hot = <<>> /\ cold = <<>>
    /\ narrative = NoNarrative
    /\ PLIdle
    /\ TrendIdle
    /\ AppIdle

\* one call of generate_spatial_commentary
Classify ==
    /\ spc = "start"
    /\ \E res \in { generate_spatial_commentary(sdf) } :
           /\ value_col' = res.value_col
           /\ q20' = res.q20
           /\ q80' = res.q80
           /\ hot' = res.hot
           /\ cold' = res.cold
           /\ narrative' = res.narrative
    /\ spc' = "done"
    /\ UNCHANGED sdf
    /\ UNCHANGED <<plVars, trVars, appVars>>

NextSpatial == Classify

SpecSpatial == InitSpatial /\ [][NextSpatial]_vars

-----------------------------------------------------------------------------
(* Claims about generate_spatial_commentary, checked under SpecSpatial *)

\* the rows of sdf whose chosen metric is a number, by source position
ValidPositions ==
    { i \in DOMAIN sdf.rows : Metric(sdf.rows[i], value_col).ok }
MetricAt(i) == Metric(sdf.rows[i], value_col).v

\* the k-th order statistic (k = 0 is the minimum) of the valid metric values,
\* by counting: fewer than k+1 values lie below it, at least k+1 at or below
OrderStat(k) ==
    CHOOSE x \in { MetricAt(i) : i \in ValidPositions } :
        /\ Cardinality({ i \in ValidPositions : MetricAt(i) < x }) <= k
        /\ Cardinality({ i \in ValidPositions : MetricAt(i) <= x }) > k

\* five times the percentile p5/5: position p*(n-1), interpolated linearly
Percentile5(p5) ==
    LET h == p5 * (Cardinality(ValidPositions) - 1)
        j == h \div 5
        r == h % 5
    IN  IF r = 0 THEN 5 * OrderStat(j)
        ELSE (5 - r) * OrderStat(j) + r * OrderStat(j + 1)

\* a frame is exactly the rows of sdf at the positions P, in table order
FrameIs(frame, P) ==
    /\ IdxOf(frame) = { i - 1 : i \in P }
    /\ Len(frame) = Cardinality(P)
    /\ \A k \in DOMAIN frame : frame[k] = sdf.rows[frame[k].idx + 1]
    /\ \A k, l \in DOMAIN frame : k < l => frame[k].idx < frame[l].idx

\* the first four rows of sdf at the positions P, in table order, as entries
IsFirstFour(txt, P) ==
    /\ Len(txt) = (IF Cardinality(P) < 4 THEN Cardinality(P) ELSE 4)
    /\ \A k \in DOMAIN txt :
          \E i \in P :
              /\ Cardinality({ x \in P : x < i }) = k - 1
              /\ txt[k] = FmtEntry(sdf.rows[i])

HotPositions == { i \in ValidPositions : 5 * MetricAt(i) >= Percentile5(4) }
ColdPositions == { i \in ValidPositions : 5 * MetricAt(i) <= Percentile5(1) }

\* C5: the hot list and the cold list hold at most four entries, and they are
\* the first four members of the hot (cold) set in table order.
C5_FirstFour ==
    (spc = "done" /\ narrative.kind \in {"lines", "even"}) =>
        /\ Len(narrative.hot_txt) <= 4
        /\ Len(narrative.cold_txt) <= 4
        /\ IsFirstFour(narrative.hot_txt, { r.idx + 1 : r \in Range(hot) })
        /\ IsFirstFour(narrative.cold_txt, { r.idx + 1 : r \in Range(cold) })

\* six hot rows of which only the first four are listed, the largest value
\* being among the rows left out
C5_Witness ==
    /\ spc = "done"
    /\ Len(hot) = 6
    /\ Len(narrative.hot_txt) = 4
    /\ \E k \in 5..6 : \A l \in 1..4 : MetricAt(hot[k].idx + 1) > MetricAt(hot[l].idx + 1)

\* C9: with at least one valid value, hot is exactly the valid rows at or
\* above the 80th percentile and cold exactly those at or below the 20th,
\* the percentiles interpolated linearly at position p*(n-1).
C9_Percentiles ==
    (spc = "done" /\ narrative.kind \in {"lines", "even"}) =>
        /\ ValidPositions # {}
        /\ q20 = Percentile5(1)
        /\ q80 = Percentile5(4)
        /\ FrameIs(hot, HotPositions)
        /\ FrameIs(cold, ColdPositions)

\* four valid rows and one invalid one, both percentiles strictly between two
\* data values, a single row in each set
C9_Witness ==
    /\ spc = "done"
    /\ Cardinality(ValidPositions) = 4
    /\ Len(sdf.rows) = 5
    /\ q80 \notin { 5 * MetricAt(i) : i \in ValidPositions }
    /\ q20 \notin { 5 * MetricAt(i) : i \in ValidPositions }
    /\ Len(hot) = 1 /\ Len(cold) = 1

\* C8 as stated: Profit_Current is ranked whenever the column exists and
\* Revenue_Current only otherwise; with neither column the result is the "no
\* metric" message, with no valid value in the chosen column the "no valid
\* data" message; rows that fail coercion are in neither set.
C8_MetricChoice ==
    spc = "done" =>
        /\ sdf.cols = {} => narrative.kind = "no_metric"
        /\ "Profit_Current" \in sdf.cols =>
              /\ value_col = "Profit_Current"
              /\ (\A i \in DOMAIN sdf.rows : ~ToNumeric(sdf.rows[i].Profit_Current).ok)
                    => narrative.kind = "no_valid"
        /\ sdf.cols = {"Revenue_Current"} =>
              /\ value_col = "Revenue_Current"
              /\ (\A i \in DOMAIN sdf.rows : ~ToNumeric(sdf.rows[i].Revenue_Current).ok)
                    => narrative.kind = "no_valid"
        /\ \A r \in Range(hot) \cup Range(cold) :
              IF "Profit_Current" \in sdf.cols
              THEN ToNumeric(r.Profit_Current).ok
              ELSE ToNumeric(r.Revenue_Current).ok

\* C8 amended: the same for a table with at least one row; a table with no
\* rows gives the "no spatial data" message whatever its columns.
C8_MetricChoiceNonEmpty ==
    spc = "done" =>
        /\ Len(sdf.rows) = 0 => narrative.kind = "no_data"
        /\ Len(sdf.rows) > 0 =>
              /\ sdf.cols = {} => narrative.kind = "no_metric"
              /\ "Profit_Current" \in sdf.cols =>
                    /\ value_col = "Profit_Current"
                    /\ (\A i \in DOMAIN sdf.rows : ~ToNumeric(sdf.rows[i].Profit_Current).ok)
                          => narrative.kind = "no_valid"
              /\ sdf.cols = {"Revenue_Current"} =>
                    /\ value_col = "Revenue_Current"
                    /\ (\A i \in DOMAIN sdf.rows : ~ToNumeric(sdf.rows[i].Revenue_Current).ok)
                          => narrative.kind = "no_valid"
        /\ \A r \in Range(hot) \cup Range(cold) :
              IF "Profit_Current" \in sdf.cols
              THEN ToNumeric(r.Profit_Current).ok
              ELSE ToNumeric(r.Revenue_Current).ok

\* both columns present, Profit_Current without a single number while every
\* Revenue_Current is one: the result is still "no valid data"
C8_Witness ==
    /\ spc = "done"
    /\ sdf.cols = {"Profit_Current", "Revenue_Current"}
    /\ Len(sdf.rows) = 2
    /\ \A i \in DOMAIN sdf.rows :
          /\ ~ToNumeric(sdf.rows[i].Profit_Current).ok
          /\ ToNumeric(sdf.rows[i].Revenue_Current).ok
    /\ value_col = "Profit_Current"
    /\ narrative.kind = "no_valid"

-----------------------------------------------------------------------------
(* The Trends page: Month as an ordered categorical, then sort_values *)

month_order == <<"Jan", "Feb", "Mar", "Apr", "May", "Jun",
                 "Jul", "Aug", "Sep", "Oct", "Nov", "Dec">>

\* the Month cells a trend csv is drawn from
MonthCells == {"Jan", "Feb", "Mar", "jan", "Q1"}

TrendFiles ==
    { [hasMonth |-> h,
       rows |-> [i \in 1..Len(ms) |-> [idx |-> i - 1, Month |-> ms[i]]]] :
        h \in BOOLEAN,
        ms \in UNION { [1..n -> MonthCells] : n \in 0..MaxTrendRows } }

\* the rank of a label among the month names sorted as plain strings
MonthCodeAlphabetical(m) ==
    LET abc == <<"Apr", "Aug", "Dec", "Feb", "Jan", "Jul",
                 "Jun", "Mar", "May", "Nov", "Oct", "Sep">>
    IN  IF \E i \in 1..12 : abc[i] = m
        THEN CHOOSE i \in 1..12 : abc[i] = m
        ELSE 0

\* the code pd.Categorical(categories=month_order, ordered=True) gives a
\* label: its place in month_order, and 0 here for a label that is no
\* category (pandas stores NaN)
MonthCode(m) ==
    IF \E i \in 1..12 : month_order[i] = m
    THEN CHOOSE i \in 1..12 : month_order[i] = m
    ELSE 0

\* tdf["Month"] = pd.Categorical(...): a label outside the categories is NaN
Retype(rows) ==
    [i \in 1..Len(rows) |->
        [idx |-> rows[i].idx,
         Month |-> IF MonthCode(rows[i].Month) = 0 THEN "NaN" ELSE rows[i].Month]]

\* every order an argsort of the codes may return: ascending, rows of equal
\* code in any order (the default kind, quicksort, is not stable)
RECURSIVE ArgsortOutcomes(_)
ArgsortOutcomes(S) ==
    IF S = {} THEN { <<>> }
    ELSE LET least == { r \in S : \A x \in S : MonthCode(r.Month) <= MonthCode(x.Month) }
         IN  UNION { { <<r>> \o t : t \in ArgsortOutcomes(S \ {r}) } : r \in least }

\* tdf.sort_values("Month"): the rows with a category by code, then the NaN
\* rows in the order met (na_position="last")
SortValuesOutcomes(rows) ==
    LET nans == SelectSeq(rows, LAMBDA r : r.Month = "NaN")
    IN  { s \o nans : s \in ArgsortOutcomes({ r \in Range(rows) : r.Month # "NaN" }) }

InitTrend ==
    /\ tfile \in TrendFiles
    /\ tpc = "start"
    /\ tdf = <<>>
    /\ PLIdle
    /\ SpatialIdle
    /\ AppIdle

\* lines 561-564 on the table load_csv returned
OrderTrend ==
    /\ tpc = "start"
    /\ IF tfile.hasMonth
       THEN tdf' \in SortValuesOutcomes(Retype(tfile.rows))
       ELSE tdf' = tfile.rows
    /\ tpc' = "done"
    /\ UNCHANGED tfile
    /\ UNCHANGED <<plVars, spVars, appVars>>

NextTrend == OrderTrend

SpecTrend == InitTrend /\ [][NextTrend]_vars

-----------------------------------------------------------------------------
(* Claims about the Trends ordering, checked under SpecTrend *)

\* the Month label the csv holds for the row at source position idx
LabelOf(r) == tfile.rows[r.idx + 1].Month
Recognized(m) == \E i \in 1..12 : month_order[i] = m
CalendarPlace(m) == CHOOSE i \in 1..12 : month_order[i] = m

\* C6: the ordering step gives the rows in the order Jan, Feb, ..., Dec; every
\* row whose Month is one of the twelve abbreviations comes before every row
\* whose Month is not; no row is added or dropped.
C6_CalendarOrder ==
    (tpc = "done" /\ tfile.hasMonth) =>
        /\ Len(tdf) = Len(tfile.rows)
        /\ IdxOf(tdf) = IdxOf(tfile.rows)
        /\ \A k, l \in DOMAIN tdf :
              k < l =>
                 /\ (Recognized(LabelOf(tdf[k])) /\ Recognized(LabelOf(tdf[l])))
                       => CalendarPlace(LabelOf(tdf[k])) <= CalendarPlace(LabelOf(tdf[l]))
                 /\ Recognized(LabelOf(tdf[l])) => Recognized(LabelOf(tdf[k]))

\* input months Mar, Jan, Feb and an unrecognized "jan": output Jan, Feb, Mar
\* and the unrecognized row last
C6_Witness ==
    /\ tpc = "done"
    /\ tfile.hasMonth
    /\ [i \in 1..Len(tfile.rows) |-> tfile.rows[i].Month] = <<"Mar", "jan", "Jan", "Feb">>
    /\ [i \in 1..Len(tdf) |-> tdf[i].idx] = <<2, 3, 0, 1>>

-----------------------------------------------------------------------------
(* The running app: sessions, the cached loaders, the six views *)

\* two of the seven keys of the INDUSTRY_* dictionaries
Industries == {"Construction Company", "Dental Practice"}

INDUSTRY_FILES ==
    "Construction Company" :> "pl_construction.csv" @@ "Dental Practice" :> "pl_dental.csv"
INDUSTRY_TREND_FILES ==
    "Construction Company" :> "pl_construction_monthly_trend.csv"
        @@ "Dental Practice" :> "pl_dental_monthly_trend.csv"
INDUSTRY_BS_FILES ==
    "Construction Company" :> "bs_construction.csv" @@ "Dental Practice" :> "bs_dental.csv"
INDUSTRY_CF_FILES ==
    "Construction Company" :> "cf_construction.csv" @@ "Dental Practice" :> "cf_dental.csv"
INDUSTRY_SPATIAL_FILES ==
    "Construction Company" :> "spatial_construction.csv"
        @@ "Dental Practice" :> "spatial_dentist.csv"

Views == {"Profit & Loss", "Insights", "Spatial", "Trends", "Balance Sheet", "Cash Flow"}
Sessions == {"s1", "s2"}

\* the dictionary a view reads besides INDUSTRY_FILES, which every run reads
ViewFiles(p) ==
    CASE p = "Spatial" -> INDUSTRY_SPATIAL_FILES
      [] p = "Trends" -> INDUSTRY_TREND_FILES
      [] p = "Balance Sheet" -> INDUSTRY_BS_FILES
      [] p = "Cash Flow" -> INDUSTRY_CF_FILES
      [] OTHER -> INDUSTRY_FILES

FileTables ==
    {INDUSTRY_FILES, INDUSTRY_TREND_FILES, INDUSTRY_BS_FILES,
     INDUSTRY_CF_FILES, INDUSTRY_SPATIAL_FILES}
FileNames == UNION { Range(d) : d \in FileTables }
TableOfFile(f) == CHOOSE d \in FileTables : f \in Range(d)

PLColumns == {"Section", "Line Item", "Current Period", "Prior Period"}
SpatialRequired == {"Zip", "City", "State", "Latitude", "Longitude"}
TrendColumns == {"Month", "Total_Revenue", "Net_Income", "Gross_Profit", "Operating_Expenses"}
StatementColumns == {"Line Item", "Current Period"}

Missing == [exists |-> FALSE, cols |-> {}, rows |-> <<>>]
File(cols, rows) == [exists |-> TRUE, cols |-> cols, rows |-> rows]

\* a well-formed file of each statement kind
GoodFile(d) ==
    CASE d = INDUSTRY_FILES ->
            File(PLColumns,
                 << FileRow("REVENUES", <<"T", "O", "T", "A", "L", " ", "R", "E", "V", "E", "N", "U", "E">>, <<"1", "0", "0">>, <<"9", "0">>),
                    FileRow("SUMMARY", NET_INCOME, <<"-", "1", "5">>, <<"-", "2", "0">>) >>)
      [] d = INDUSTRY_SPATIAL_FILES ->
            File(SpatialRequired \cup {"Profit_Current"},
                 SpatialTable({"Profit_Current"}, << <<"2", "0">>, <<"a", "b", "c">> >>).rows)
      [] d = INDUSTRY_TREND_FILES ->
            File(TrendColumns,
                 << [idx |-> 0, Month |-> "Mar"], [idx |-> 1, Month |-> "Q1"],
                    [idx |-> 2, Month |-> "Jan"] >>)
      [] d = INDUSTRY_BS_FILES ->
            File(StatementColumns,
                 << [LineItem |-> "TOTAL ASSETS", Cur |-> <<"9", "0">>],
                    [LineItem |-> "TOTAL LIABILITIES", Cur |-> <<"2", "0">>],
                    [LineItem |-> "TOTAL EQUITY", Cur |-> <<"7", "0">>] >>)
      [] d = INDUSTRY_CF_FILES ->
            File(StatementColumns,
                 << [LineItem |-> "Beginning Cash", Cur |-> <<"2", "0">>],
                    [LineItem |-> "Ending Cash", Cur |-> <<"9", "0">>] >>)

\* the same file without one of the columns its view needs
LackingFile(d) ==
    LET g == GoodFile(d)
        gone == CASE d = INDUSTRY_FILES -> "Section"
                  [] d = INDUSTRY_SPATIAL_FILES -> "Latitude"
                  [] d = INDUSTRY_TREND_FILES -> "Net_Income"
                  [] d = INDUSTRY_BS_FILES -> "Current Period"
                  [] d = INDUSTRY_CF_FILES -> "Line Item"
    IN  File(g.cols \ {gone}, g.rows)

AllGood == [f \in FileNames |-> GoodFile(TableOfFile(f))]

\* every file in place, or exactly one file missing or lacking a column
Disks ==
    {AllGood} \cup
    UNION { { [AllGood EXCEPT ![f] = Missing],
              [AllGood EXCEPT ![f] = LackingFile(TableOfFile(f))] } : f \in FileNames }

NoFrame == [file |-> "none", tbl |-> [cols |-> {}, rows |-> <<>>], shared |-> FALSE]
NoOutput == [result |-> "none", shown |-> {}]
Crashed == [result |-> "crashed", shown |-> {"exception"}]

\* a cache that hands out the cached object itself
cache_returns_reference(f, t) == [file |-> f, tbl |-> t, shared |-> TRUE]

\* @st.cache_data: every call, hit or miss, returns a fresh copy of the stored
\* value (it is pickled on store and unpickled per call)
cache_data_return(f, t) == [file |-> f, tbl |-> t, shared |-> FALSE]

\* the frame a name is bound to: its own copy, or the cached object
FrameTbl(fr, c) == IF fr.shared THEN c[fr.file].tbl ELSE fr.tbl

\* the body of the loader for file f: load_pl_data coerces the amount columns
\* it finds, load_csv reads the file as it is
ReadCsv(f) ==
    IF TableOfFile(f) = INDUSTRY_FILES
    THEN [cols |-> disk[f].cols, rows |-> load_pl_data(disk[f].rows)]
    ELSE [cols |-> disk[f].cols, rows |-> disk[f].rows]

\* a call of a cached loader with cache c: a hit returns the stored value, a
\* miss runs the body under the function's lock and stores the result; a
\* missing file raises and stores nothing
CachedLoad(f, c) ==
    IF c[f].cached
    THEN [raised |-> FALSE, cache |-> c, frame |-> cache_data_return(f, c[f].tbl)]
    ELSE IF ~disk[f].exists
    THEN [raised |-> TRUE, cache |-> c, frame |-> NoFrame]
    ELSE [raised |-> FALSE,
          cache |-> [c EXCEPT ![f] = [cached |-> TRUE, tbl |-> ReadCsv(f)]],
          frame |-> cache_data_return(f, ReadCsv(f))]

Returned(l) == [file |-> l.frame.file, tbl |-> FrameTbl(l.frame, l.cache)]

\* the outcome of a script run that ends in this step
Ended(c, ret, out) ==
    [cache |-> c, returned |-> ret, pc |-> "idle", frame |-> NoFrame, out |-> out]

\* bs.loc[bs["Line Item"] == name, "Current Period"].iloc[0] for each name:
\* KeyError without the columns, IndexError without the row
StatementPage(t, names) ==
    IF StatementColumns \subseteq t.cols
       /\ \A n \in names : \E k \in DOMAIN t.rows : t.rows[k].LineItem = n
    THEN [result |-> "rendered", shown |-> {"kpis", "table"}]
    ELSE Crashed

\* the script from line 317 with industry i and view p selected, up to the
\* end of the page or, on Spatial and Trends, up to the return of load_csv
ScriptRun(i, p, c) ==
    LET l1 == CachedLoad(INDUSTRY_FILES[i], c)
        t1 == FrameTbl(l1.frame, l1.cache)
        r1 == { Returned(l1) }
        l2 == CachedLoad(ViewFiles(p)[i], l1.cache)
        r2 == r1 \cup { Returned(l2) }
    IN  IF l1.raised THEN Ended(c, {}, Crashed)
        ELSE IF ~(PLColumns \subseteq t1.cols) \/ PreCalcs(t1.rows).raised
        THEN Ended(l1.cache, r1, Crashed)
        ELSE IF p = "Profit & Loss"
        THEN Ended(l1.cache, r1, [result |-> "rendered", shown |-> {"kpis", "charts", "table"}])
        ELSE IF p = "Insights"
        THEN Ended(l1.cache, r1, [result |-> "rendered", shown |-> {"trend", "verdict"}])
        ELSE IF l2.raised THEN Ended(l1.cache, r1, Crashed)
        ELSE IF p = "Spatial"
        THEN [cache |-> l2.cache, returned |-> r2, pc |-> "spatial_loaded",
              frame |-> l2.frame, out |-> NoOutput]
        ELSE IF p = "Trends"
        THEN [cache |-> l2.cache, returned |-> r2, pc |-> "trend_loaded",
              frame |-> l2.frame, out |-> NoOutput]
        ELSE IF p = "Balance Sheet"
        THEN Ended(l2.cache, r2,
                   StatementPage(FrameTbl(l2.frame, l2.cache),
                                 {"TOTAL ASSETS", "TOTAL LIABILITIES", "TOTAL EQUITY"}))
        ELSE Ended(l2.cache, r2,
                   StatementPage(FrameTbl(l2.frame, l2.cache),
                                 {"Beginning Cash", "Ending Cash"}))

\* the first value each file's loader returned
NoteFirst(first, ret) ==
    [f \in FileNames |->
        IF ~first[f].loaded /\ \E e \in ret : e.file = f
        THEN [loaded |-> TRUE, tbl |-> (CHOOSE e \in ret : e.file = f).tbl]
        ELSE first[f]]

\* a widget interaction of session s: the script re-runs with the selection
Run(s) ==
    /\ s \in open
    /\ sess[s].pc = "idle"
    /\ \E i \in Industries, p \in Views :
       \E res \in { ScriptRun(i, p, cache) } :
           /\ cache' = res.cache
           /\ sess' = [sess EXCEPT ![s] =
                         [industry |-> i, page |-> p, pc |-> res.pc,
                          frame |-> res.frame, out |-> res.out,
                          returned |-> res.returned]]
           /\ firstLoad' = NoteFirst(firstLoad, res.returned)
    /\ UNCHANGED <<disk, open>>
    /\ UNCHANGED <<plVars, spVars, trVars>>

\* the text a cell shows once its column is numeric: a numeral stays as it
\* is, anything else is NaN
NaNCell == <<"n", "a", "n">>
CoerceCell(c) == IF ToNumeric(c).ok THEN c ELSE NaNCell

\* sdf[col] = pd.to_numeric(sdf[col], errors="coerce") for the listed columns
\* the table has (the coordinates are not carried by the model's rows)
CoerceSpatial(t) ==
    [cols |-> t.cols,
     rows |-> [k \in DOMAIN t.rows |->
                 [t.rows[k] EXCEPT
                    !.Profit_Current =
                        IF "Profit_Current" \in t.cols THEN CoerceCell(@) ELSE @,
                    !.Revenue_Current =
                        IF "Revenue_Current" \in t.cols THEN CoerceCell(@) ELSE @]]]

\* an assignment into the frame a name is bound to writes the cached object
\* too when the frame is that object
WriteThrough(fr, t, c) ==
    IF fr.shared THEN [c EXCEPT ![fr.file].tbl = t] ELSE c

\* the Spatial page after load_csv: lines 472-552
SpatialBody(s) ==
    /\ s \in open
    /\ sess[s].pc = "spatial_loaded"
    /\ LET fr == sess[s].frame
           t == FrameTbl(fr, cache)
           coerced == CoerceSpatial(t)
       IN  IF ~(SpatialRequired \subseteq t.cols)
           THEN /\ sess' = [sess EXCEPT ![s].pc = "idle",
                                        ![s].out = [result |-> "stopped",
                                                    shown |-> {"error"}]]
                /\ UNCHANGED cache
           ELSE /\ cache' = WriteThrough(fr, coerced, cache)
                /\ sess' = [sess EXCEPT
                              ![s].pc = "idle",
                              ![s].frame.tbl = coerced,
                              ![s].out =
                                  [result |-> "rendered",
                                   shown |-> {"kpis", "map", "table",
                                              generate_spatial_commentary(coerced).narrative.kind}]]
    /\ UNCHANGED <<disk, open, firstLoad>>
    /\ UNCHANGED <<plVars, spVars, trVars>>

\* the Trends page after load_csv: lines 561-589; px.line raises without its
\* x and y columns
TrendsBody(s) ==
    /\ s \in open
    /\ sess[s].pc = "trend_loaded"
    /\ LET fr == sess[s].frame
           t == FrameTbl(fr, cache)
           retyped == [cols |-> t.cols, rows |-> Retype(t.rows)]
           out == IF TrendColumns \subseteq t.cols
                  THEN [result |-> "rendered", shown |-> {"charts", "table"}]
                  ELSE Crashed
       IN  IF "Month" \in t.cols
           THEN \E sorted \in SortValuesOutcomes(retyped.rows) :
                   /\ cache' = WriteThrough(fr, retyped, cache)
                   /\ sess' = [sess EXCEPT
                                 ![s].pc = "idle",
                                 ![s].frame = [file |-> fr.file,
                                               tbl |-> [cols |-> t.cols, rows |-> sorted],
                                               shared |-> FALSE],
                                 ![s].out = out]
           ELSE /\ sess' = [sess EXCEPT ![s].pc = "idle", ![s].out = out]
                /\ UNCHANGED cache
    /\ UNCHANGED <<disk, open, firstLoad>>
    /\ UNCHANGED <<plVars, spVars, trVars>>

\* a session as it connects: the first option of each widget, nothing run yet
NewSession ==
    [industry |-> "Construction Company", page |-> "Profit & Loss", pc |-> "idle",
     frame |-> NoFrame, out |-> NoOutput, returned |-> {}]

InitServer ==
    /\ cache = [f \in FileNames |-> [cached |-> FALSE, tbl |-> [cols |-> {}, rows |-> <<>>]]]
    /\ firstLoad = [f \in FileNames |-> [loaded |-> FALSE, tbl |-> [cols |-> {}, rows |-> <<>>]]]
    /\ sess = [s \in Sessions |-> NewSession]
    /\ PLIdle /\ SpatialIdle /\ TrendIdle

\* one browser session over any of the disks
InitApp ==
    /\ disk \in Disks
    /\ open = {"s1"}
    /\ InitServer

\* two browser sessions over the well-formed files
InitSessions ==
    /\ disk = AllGood
    /\ open = Sessions
    /\ InitServer

NextApp == \E s \in Sessions : Run(s) \/ SpatialBody(s) \/ TrendsBody(s)

SpecApp == InitApp /\ [][NextApp]_vars

SpecSessions == InitSessions /\ [][NextApp]_vars

-----------------------------------------------------------------------------
(* Claims about the views and the cached loaders *)

\* the statement file the selected view of session s is about
ViewFile(s) == ViewFiles(sess[s].page)[sess[s].industry]
Finished(s) == s \in open /\ sess[s].pc = "idle" /\ sess[s].out.result # "none"

\* C4: a file that is missing or lacks required columns is fatal only for the
\* view that uses it: a finished run of a view whose own statement file is
\* well-formed has rendered, and the Spatial view over a table without one of
\* its five required columns has shown the error and stopped, with no KPI and
\* no narrative.
C4_OnlyItsViewFails ==
    \A s \in Sessions :
        Finished(s) =>
            /\ disk[ViewFile(s)] = GoodFile(TableOfFile(ViewFile(s)))
                  => sess[s].out.result = "rendered"
            /\ (/\ sess[s].page = "Spatial"
                /\ disk[ViewFile(s)].exists
                /\ ~(SpatialRequired \subseteq disk[ViewFile(s)].cols))
                  => sess[s].out = [result |-> "stopped", shown |-> {"error"}]

\* C10: every value a cached loader has returned to a run equals what the
\* first load of that file returned, and the stored value never changes,
\* whatever the sessions have done in place to the frames they received.
C10_LoadsAgree ==
    /\ \A s \in open :
          \A e \in sess[s].returned :
              /\ firstLoad[e.file].loaded
              /\ e.tbl = firstLoad[e.file].tbl
    /\ \A f \in DOMAIN cache :
          cache[f].cached => (firstLoad[f].loaded /\ cache[f].tbl = firstLoad[f].tbl)

\* s1 has rendered the Spatial view, its frame coerced in place and so unlike
\* the first load; s2 holds a frame of the same file that equals the first
\* load and still carries the unparsed cell; the trend file of that industry
\* has been loaded as well
C10_Witness ==
    /\ open = Sessions
    /\ sess["s1"].page = "Spatial" /\ sess["s1"].out.result = "rendered"
    /\ sess["s1"].frame.tbl # firstLoad[sess["s1"].frame.file].tbl
    /\ sess["s2"].pc = "spatial_loaded"
    /\ sess["s2"].frame.file = sess["s1"].frame.file
    /\ sess["s2"].frame.tbl = firstLoad[sess["s2"].frame.file].tbl
    /\ \E k \in DOMAIN sess["s2"].frame.tbl.rows :
          sess["s2"].frame.tbl.rows[k].Profit_Current = <<"a", "b", "c">>
    /\ cache[INDUSTRY_TREND_FILES[sess["s1"].industry]].cached

=============================================================================
